---- MODULE Spec2Model ----
(***************************************************************************)
(* Webhook transaction processor (src/app.py): idempotent intake of        *)
(* transaction webhooks, settlement by one background thread per accepted  *)
(* transaction, and a status query, all coordinated through one MongoDB    *)
(* collection.                                                             *)
(*                                                                         *)
(* The collection is a sequence of documents in natural order (find_one    *)
(* and update_one act on the first match).  A timestamp string             *)
(* datetime.utcnow().isoformat() + "Z" is the pair <<t, "Z">>; None is the *)
(* empty tuple.  An exception is a record of its class and its message,    *)
(* the message a sequence of words.                                        *)
(***************************************************************************)
EXTENDS Integers, Sequences, FiniteSets, TLC

\* ---------------------------------------------------------------- bounds
MaxReq == 2        \* request handlers that can be in flight together
MaxInserts == 2    \* documents ever inserted into the collection
MaxClock == 60     \* last instant of the wall clock
TickStep == 30     \* granularity of the wall clock

\* ------------------------------------------------------ program constants
SLEEP == 30
HTTP_202_ACCEPTED == 202
HTTP_404_NOT_FOUND == 404
HTTP_422_UNPROCESSABLE == 422
HTTP_500_INTERNAL_SERVER_ERROR == 500
HTTP_200_OK == 200
CURRENCY_LEN == 3

Slots == 1..MaxReq
Ids == {"t1", "t2"}

None == <<>>

\* ------------------------------------------------------------- payloads
USD == <<"U", "S", "D">>
EUR == <<"E", "U", "R">>

MkData(tid, src, dst, amt, cur) ==
    [transaction_id |-> tid, source_account |-> src,
     destination_account |-> dst, amount |-> amt, currency |-> cur]

ValidPayloads ==
    { MkData("t1", "acc1", "acc2", 100, USD),
      MkData("t1", "acc3", "acc4", 250, EUR),
      MkData("t2", "acc1", "acc2", 100, USD) }

InvalidPayloads ==
    { MkData("t1", "acc1", "acc2", 0, USD),
      MkData("t2", "acc1", "acc2", -5, USD),
      MkData("t2", "acc3", "acc4", 250, <<"U", "S">>),
      MkData("t1", "acc3", "acc4", 250, <<"U", "S", "D", "T">>) }

Payloads == ValidPayloads \cup InvalidPayloads

NoData == MkData("", "", "", 0, <<>>)

\* WebhookRequest with amount ge=0 in place of gt=0
WebhookRequest_valid_ge(data) ==
    /\ data.amount >= 0
    /\ Len(data.currency) >= CURRENCY_LEN
    /\ Len(data.currency) <= CURRENCY_LEN

\* WebhookRequest: amount gt=0, currency min_length=3, max_length=3
WebhookRequest_valid(data) ==
    /\ data.amount > 0
    /\ Len(data.currency) >= CURRENCY_LEN
    /\ Len(data.currency) <= CURRENCY_LEN

\* ----------------------------------------------------------- exceptions
NoExc == [type |-> "", text |-> <<>>]

DuplicateKeyError ==
    [type |-> "DuplicateKeyError",
     text |-> <<"E11000", "duplicate", "key", "error", "collection">>]

ServerSelectionTimeoutError ==
    [type |-> "ServerSelectionTimeoutError",
     text |-> <<"Connection", "refused">>]

OperationFailure ==
    [type |-> "OperationFailure",
     text |-> <<"not", "authorized", "on", "webhook_processor">>]

\* what insert_one raises when the write does not reach the collection
InsertFailures == {ServerSelectionTimeoutError, OperationFailure}

RuntimeError ==
    [type |-> "RuntimeError",
     text |-> <<"can't", "start", "new", "thread">>]

RequestValidationError ==
    [type |-> "RequestValidationError",
     text |-> <<"value", "is", "not", "valid">>]

\* str.lower() on one word
LowerWord(w) ==
    CASE w = "E11000" -> "e11000"
      [] w = "Connection" -> "connection"
      [] OTHER -> w

lower(text) == [i \in 1..Len(text) |-> LowerWord(text[i])]

\* phrase in text
Contains(text, phrase) ==
    \E i \in 0..(Len(text) - Len(phrase)) :
        \A j \in 1..Len(phrase) : text[i + j] = phrase[j]

\* "duplicate key" in str(e).lower()
IsDuplicate(e) == Contains(lower(e.text), <<"duplicate", "key">>)

\* ------------------------------------------------------------ responses
NoResp == [code |-> 0, detail |-> <<>>]

Accepted == [code |-> HTTP_202_ACCEPTED, detail |-> <<"Webhook", "received">>]

IntakeServerError ==
    [code |-> HTTP_500_INTERNAL_SERVER_ERROR,
     detail |-> <<"Failed", "to", "process", "webhook">>]

ValidationResponse(e) == [code |-> HTTP_422_UNPROCESSABLE, detail |-> e.text]

\* ---------------------------------------------------------------- state
VARIABLES
    proc,      \* "starting" (before startup_event) or "serving"
    indexed,   \* the unique index on transaction_id exists in the store
    store,     \* db.transactions, documents in natural order
    nextId,    \* next _id the store hands out
    clock,     \* wall clock read by datetime.utcnow() and time.sleep
    req,       \* request handlers of receive_webhook, one per slot
    workers,   \* threads started by start_background_processing
    lastq      \* outcome of the latest get_transaction_status

vars == <<proc, indexed, store, nextId, clock, req, workers, lastq>>

\* datetime.utcnow().isoformat() + "Z"
utcnow_iso(now) == <<now, "Z">>

\* transaction_doc of receive_webhook
transaction_doc(data, now) ==
    [transaction_id |-> data.transaction_id,
     source_account |-> data.source_account,
     destination_account |-> data.destination_account,
     amount |-> data.amount,
     currency |-> data.currency,
     status |-> "PROCESSING",
     created_at |-> utcnow_iso(now),
     processed_at |-> None]

NoDoc == transaction_doc(NoData, 0)

\* the document as the store keeps it
WithId(doc, id) ==
    [_id |-> id,
     transaction_id |-> doc.transaction_id,
     source_account |-> doc.source_account,
     destination_account |-> doc.destination_account,
     amount |-> doc.amount,
     currency |-> doc.currency,
     status |-> doc.status,
     created_at |-> doc.created_at,
     processed_at |-> doc.processed_at]

\* positions of the documents matching {"transaction_id": tid}
Matches(coll, tid) == {i \in 1..Len(coll) : coll[i].transaction_id = tid}

Min(S) == CHOOSE x \in S : \A y \in S : x <= y

\* find_one({"transaction_id": tid}): first match or None
find_one(coll, tid) ==
    IF Matches(coll, tid) = {} THEN None ELSE coll[Min(Matches(coll, tid))]

\* insert_one under the unique index: the exception it raises, if any
insert_one_error(coll, uniq, doc) ==
    IF uniq /\ Matches(coll, doc.transaction_id) # {}
    THEN DuplicateKeyError ELSE NoExc

\* insert_into written as an upsert: a duplicate replaces the stored document
insert_into_upsert(coll, uniq, doc, id) ==
    IF Matches(coll, doc.transaction_id) = {}
    THEN Append(coll, WithId(doc, id))
    ELSE [coll EXCEPT ![Min(Matches(coll, doc.transaction_id))] =
            WithId(doc, @._id)]

\* the collection after insert_one(doc)
insert_into(coll, uniq, doc, id) ==
    IF insert_one_error(coll, uniq, doc) = NoExc
    THEN Append(coll, WithId(doc, id)) ELSE coll

\* update_one that sets the status alone
update_one_status_only(coll, tid, now) ==
    IF Matches(coll, tid) = {} THEN coll
    ELSE [coll EXCEPT ![Min(Matches(coll, tid))] =
            [@ EXCEPT !.status = "PROCESSED"]]

\* update_one with an empty filter: the first document, whoever's it is
update_one_unfiltered(coll, tid, now) ==
    IF coll = <<>> THEN coll
    ELSE [coll EXCEPT ![1] =
            [@ EXCEPT !.status = "PROCESSED",
                      !.processed_at = utcnow_iso(now)]]

\* update_one that writes only where the status is still PROCESSING
update_one_if_processing(coll, tid, now) ==
    IF Matches(coll, tid) = {} THEN coll
    ELSE IF coll[Min(Matches(coll, tid))].status # "PROCESSING" THEN coll
    ELSE [coll EXCEPT ![Min(Matches(coll, tid))] =
            [@ EXCEPT !.status = "PROCESSED",
                      !.processed_at = utcnow_iso(now)]]

\* update_one({"transaction_id": tid}, {"$set": {status, processed_at}})
update_one(coll, tid, now) ==
    IF Matches(coll, tid) = {} THEN coll
    ELSE [coll EXCEPT ![Min(Matches(coll, tid))] =
            [@ EXCEPT !.status = "PROCESSED",
                      !.processed_at = utcnow_iso(now)]]

\* result.modified_count
modified_count(coll, tid, now) ==
    IF update_one(coll, tid, now) = coll THEN 0 ELSE 1

IdleReq ==
    [pc |-> "idle", data |-> NoData, doc |-> NoDoc, resp |-> NoResp,
     exc |-> NoExc, inserted |-> 0]

\* TransactionResponse without the processed_at field of the document
TransactionResponse_no_processed_at(d) ==
    [transaction_id |-> d.transaction_id,
     source_account |-> d.source_account,
     destination_account |-> d.destination_account,
     amount |-> d.amount,
     currency |-> d.currency,
     status |-> d.status,
     created_at |-> d.created_at,
     processed_at |-> None]

\* TransactionResponse(**transaction) after transaction.pop("_id", None)
TransactionResponse(d) ==
    [transaction_id |-> d.transaction_id,
     source_account |-> d.source_account,
     destination_account |-> d.destination_account,
     amount |-> d.amount,
     currency |-> d.currency,
     status |-> d.status,
     created_at |-> d.created_at,
     processed_at |-> d.processed_at]

NoBody == TransactionResponse(NoDoc)

NoQuery ==
    [transaction_id |-> "", at |-> 0, exc |-> NoExc,
     code |-> 0, body |-> NoBody, detail |-> <<>>]

Init ==
    /\ proc = "starting"
    /\ indexed = FALSE
    /\ store = <<>>
    /\ nextId = 1
    /\ clock = 0
    /\ req = [r \in Slots |-> IdleReq]
    /\ workers = <<>>
    /\ lastq = NoQuery

\* ------------------------------------------------------------- startup
\* create_index("transaction_id", unique=True); any exception is logged
\* and startup goes on.  The build fails on an unreachable store and on a
\* collection that already holds two documents with one transaction_id.
HasDuplicates(coll) ==
    \E i, j \in 1..Len(coll) :
        i # j /\ coll[i].transaction_id = coll[j].transaction_id

create_index(coll, uniq, reachable) ==
    IF ~reachable THEN uniq
    ELSE IF uniq THEN TRUE
    ELSE ~HasDuplicates(coll)

startup_event ==
    /\ proc = "starting"
    /\ \E reachable \in BOOLEAN :
          indexed' = create_index(store, indexed, reachable)
    /\ proc' = "serving"
    /\ UNCHANGED <<store, nextId, clock, req, workers, lastq>>

\* -------------------------------------------------------------- intake
\* The request is parsed into WebhookRequest before the handler body runs;
\* the handler then builds transaction_doc and awaits insert_one.
receive_webhook(r, data) ==
    /\ proc = "serving"
    /\ req[r].pc = "idle"
    /\ \A q \in Slots : q < r => req[q].pc # "idle"
    /\ IF WebhookRequest_valid(data)
       THEN req' = [req EXCEPT ![r] =
                [IdleReq EXCEPT !.pc = "insert", !.data = data,
                                !.doc = transaction_doc(data, clock)]]
       ELSE req' = [req EXCEPT ![r] =
                [IdleReq EXCEPT !.pc = "done", !.data = data,
                                !.exc = RequestValidationError,
                                !.resp = ValidationResponse(RequestValidationError)]]
    /\ UNCHANGED <<proc, indexed, store, nextId, clock, workers, lastq>>

\* on_intake_exception with detail=str(e)
on_intake_exception_leak(e) ==
    IF IsDuplicate(e) THEN Accepted
    ELSE [code |-> HTTP_500_INTERNAL_SERVER_ERROR, detail |-> e.text]

\* on_intake_exception without the duplicate-key branch
on_intake_exception_reraise(e) == IntakeServerError

\* except Exception as e (inner), then the outer handler: the response to
\* an exception raised inside the inner try block
on_intake_exception(e) ==
    IF IsDuplicate(e) THEN Accepted ELSE IntakeServerError

\* await db.transactions.insert_one(transaction_doc) and, when it raises,
\* the rest of the handler.  The store either executes the insert (which
\* succeeds or hits the unique index) or the write never reaches it.
insert_one(r) ==
    /\ proc = "serving"
    /\ req[r].pc = "insert"
    /\ \E e \in {insert_one_error(store, indexed, req[r].doc)}
                \cup InsertFailures :
        IF e = NoExc
        THEN /\ nextId <= MaxInserts
             /\ clock + SLEEP <= MaxClock
             /\ store' = insert_into(store, indexed, req[r].doc, nextId)
             /\ nextId' = nextId + 1
             /\ req' = [req EXCEPT ![r].pc = "dispatch",
                                   ![r].inserted = nextId]
        ELSE /\ store' = IF e \in InsertFailures THEN store
                         ELSE insert_into(store, indexed, req[r].doc, nextId)
             /\ req' = [req EXCEPT ![r].pc = "done",
                                   ![r].exc = e,
                                   ![r].resp = on_intake_exception(e)]
             /\ UNCHANGED nextId
    /\ UNCHANGED <<proc, indexed, clock, workers, lastq>>

\* a thread that does not sleep before its update
NewWorker_no_sleep(tid, now) ==
    [transaction_id |-> tid, wakeAt |-> now, state |-> "sleeping"]

\* threading.Thread(target=process_transaction_background, ...).start():
\* the thread begins time.sleep(30) at once
NewWorker(tid, now) ==
    [transaction_id |-> tid, wakeAt |-> now + SLEEP, state |-> "sleeping"]

\* start_background_processing(webhook_data.transaction_id), then the
\* return of the acknowledgment; thread.start() raises RuntimeError when
\* no thread can be started
start_background_processing(r) ==
    /\ proc = "serving"
    /\ req[r].pc = "dispatch"
    /\ \E started \in BOOLEAN :
        IF started
        THEN /\ workers' = Append(workers,
                    NewWorker(req[r].data.transaction_id, clock))
             /\ req' = [req EXCEPT ![r].pc = "done", ![r].resp = Accepted]
        ELSE /\ req' = [req EXCEPT ![r].pc = "done",
                                   ![r].exc = RuntimeError,
                                   ![r].resp = on_intake_exception(RuntimeError)]
             /\ UNCHANGED workers
    /\ UNCHANGED <<proc, indexed, store, nextId, clock, lastq>>

\* the response has been sent; the slot serves the next request
reply(r) ==
    /\ req[r].pc = "done"
    /\ req' = [req EXCEPT ![r] = IdleReq]
    /\ UNCHANGED <<proc, indexed, store, nextId, clock, workers, lastq>>

\* ---------------------------------------------------- settlement worker
\* worker_end of a worker that goes round again unless its update counted
worker_end_retry(coll, tid, now, reachable) ==
    IF ~reachable THEN "sleeping"
    ELSE IF modified_count(coll, tid, now) > 0 THEN "processed"
    ELSE "sleeping"

\* the state the thread ends in
worker_end(coll, tid, now, reachable) ==
    IF ~reachable THEN "failed"
    ELSE IF modified_count(coll, tid, now) > 0 THEN "processed"
    ELSE "anomaly"

\* a thread that has returned: its timer is gone
Ended(w, how) == [w EXCEPT !.state = how, !.wakeAt = 0]

\* process_transaction_background whose failed update stops the process
process_transaction_background_fatal(w) ==
    /\ w \in 1..Len(workers)
    /\ workers[w].state = "sleeping"
    /\ clock >= workers[w].wakeAt
    /\ \E reachable \in BOOLEAN :
        /\ store' = IF reachable
                    THEN update_one(store, workers[w].transaction_id, clock)
                    ELSE store
        /\ workers' = IF reachable
                      THEN [workers EXCEPT ![w] = Ended(@,
                              worker_end(store, workers[w].transaction_id,
                                         clock, reachable))]
                      ELSE [v \in 1..Len(workers) |->
                              IF workers[v].state = "sleeping"
                              THEN Ended(workers[v], "failed")
                              ELSE workers[v]]
        /\ proc' = IF reachable THEN proc ELSE "starting"
        /\ req' = IF reachable THEN req ELSE [r \in Slots |-> IdleReq]
    /\ UNCHANGED <<indexed, nextId, clock, lastq>>

\* process_transaction_background after time.sleep(30) has returned
process_transaction_background(w) ==
    /\ w \in 1..Len(workers)
    /\ workers[w].state = "sleeping"
    /\ clock >= workers[w].wakeAt
    /\ \E reachable \in BOOLEAN :
        /\ store' = IF reachable
                    THEN update_one(store, workers[w].transaction_id, clock)
                    ELSE store
        /\ workers' = [workers EXCEPT ![w] = Ended(@,
                worker_end(store, workers[w].transaction_id, clock, reachable))]
    /\ UNCHANGED <<proc, indexed, nextId, clock, req, lastq>>

\* --------------------------------------------------------- status query
\* on_query_exception without "except HTTPException: raise"
on_query_exception_generic(e) ==
    [code |-> HTTP_500_INTERNAL_SERVER_ERROR,
     detail |-> <<"Failed", "to", "retrieve", "transaction", "status">>]

\* the handler's except clauses: HTTPException is re-raised as it is, any
\* other exception becomes the generic server error
on_query_exception(e) ==
    IF e.type = "HTTPException"
    THEN [code |-> HTTP_404_NOT_FOUND,
          detail |-> <<"Transaction", "not", "found">>]
    ELSE [code |-> HTTP_500_INTERNAL_SERVER_ERROR,
          detail |-> <<"Failed", "to", "retrieve", "transaction", "status">>]

HTTPException == [type |-> "HTTPException", text |-> <<"Transaction", "not", "found">>]

\* the exception raised in the try block of get_transaction_status
query_exception(coll, tid, reachable) ==
    IF ~reachable THEN ServerSelectionTimeoutError
    ELSE IF Matches(coll, tid) = {} THEN HTTPException
    ELSE NoExc

query_result(coll, tid, now, reachable) ==
    LET e == query_exception(coll, tid, reachable)
    IN [transaction_id |-> tid, at |-> now, exc |-> e,
        code |-> IF e = NoExc THEN HTTP_200_OK ELSE on_query_exception(e).code,
        body |-> IF e = NoExc THEN TransactionResponse(find_one(coll, tid))
                 ELSE NoBody,
        detail |-> IF e = NoExc THEN <<>> ELSE on_query_exception(e).detail]

get_transaction_status(tid) ==
    /\ proc = "serving"
    /\ \E reachable \in BOOLEAN :
          lastq' = query_result(store, tid, clock, reachable)
    /\ UNCHANGED <<proc, indexed, store, nextId, clock, req, workers>>

\* ---------------------------------------------------------- environment
\* the wall clock advances; a handler between its insert and its dispatch
\* holds the last instant at which a worker can still be started
Tick ==
    /\ clock < MaxClock
    /\ \A r \in Slots :
          req[r].pc = "dispatch" => clock + TickStep + SLEEP <= MaxClock
    /\ clock' = IF clock + TickStep <= MaxClock THEN clock + TickStep
                ELSE MaxClock
    /\ UNCHANGED <<proc, indexed, store, nextId, req, workers, lastq>>

\* the hosting process dies: handlers in flight are lost and the daemon
\* threads die with it; the store is durable
Kill(w) == IF w.state = "sleeping" THEN Ended(w, "killed") ELSE w

Crash ==
    /\ proc = "serving"
    /\ proc' = "starting"
    /\ req' = [r \in Slots |-> IdleReq]
    /\ workers' = [w \in 1..Len(workers) |-> Kill(workers[w])]
    /\ UNCHANGED <<indexed, store, nextId, clock, lastq>>

\* the client of the status query has its answer
query_reply ==
    /\ lastq # NoQuery
    /\ lastq' = NoQuery
    /\ UNCHANGED <<proc, indexed, store, nextId, clock, req, workers>>

\* no response is waiting to be delivered
Quiet == lastq = NoQuery /\ \A r \in Slots : req[r].pc # "done"

\* A response is delivered before the system's next step.
Next ==
    \/ Quiet /\ startup_event
    \/ Quiet /\ \E r \in Slots, data \in Payloads : receive_webhook(r, data)
    \/ Quiet /\ \E r \in Slots : insert_one(r)
    \/ Quiet /\ \E r \in Slots : start_background_processing(r)
    \/ \E r \in Slots : reply(r)
    \/ Quiet /\ \E w \in 1..MaxInserts : process_transaction_background(w)
    \/ Quiet /\ \E tid \in Ids : get_transaction_status(tid)
    \/ query_reply
    \/ Quiet /\ Tick
    \/ Quiet /\ Crash

Spec == Init /\ [][Next]_vars

\* ------------------------------------------------ the store's other users
\* Retention is not this program's concern: whoever else holds the
\* collection may delete a document at any time.
RemoveAt(coll, i) == [j \in 1..(Len(coll) - 1) |->
                        IF j < i THEN coll[j] ELSE coll[j + 1]]

ExternalDelete(i) ==
    /\ i \in 1..Len(store)
    /\ store' = RemoveAt(store, i)
    /\ UNCHANGED <<proc, indexed, nextId, clock, req, workers, lastq>>

NextEnv ==
    \/ Quiet /\ startup_event
    \/ Quiet /\ \E r \in Slots, data \in Payloads : receive_webhook(r, data)
    \/ Quiet /\ \E r \in Slots : insert_one(r)
    \/ Quiet /\ \E r \in Slots : start_background_processing(r)
    \/ \E r \in Slots : reply(r)
    \/ Quiet /\ \E w \in 1..MaxInserts : process_transaction_background(w)
    \/ Quiet /\ \E tid \in Ids : get_transaction_status(tid)
    \/ query_reply
    \/ Quiet /\ Tick
    \/ Quiet /\ Crash
    \/ Quiet /\ \E i \in 1..MaxInserts : ExternalDelete(i)

SpecEnv == Init /\ [][NextEnv]_vars

TypeOK ==
    /\ proc \in {"starting", "serving"}
    /\ indexed \in BOOLEAN
    /\ Len(store) <= MaxInserts
    /\ clock \in 0..MaxClock

\* ----------------------------------------------------------- the claims
Docs == {store[i] : i \in 1..Len(store)}

WorkersOf(tid) == {w \in 1..Len(workers) : workers[w].transaction_id = tid}

\* the step in which handler r learns that its insert hit the unique index
DuplicateStep(r) ==
    /\ req[r].pc = "insert"
    /\ req'[r].pc = "done"
    /\ req'[r].exc.type = "DuplicateKeyError"

\* C2: an intake request whose insert fails on the unique index leaves
\* every stored document as it was, starts no worker and is answered with
\* the acknowledgment of a first delivery.
C2_DuplicateAbsorbed ==
    [][\A r \in Slots :
          DuplicateStep(r) =>
             /\ store' = store
             /\ workers' = workers
             /\ req'[r].resp = Accepted]_vars

\* C2 witness: a duplicate with another payload, absorbed while the stored
\* document is already PROCESSED
C2_Witness ==
    \E r \in Slots :
        /\ req[r].pc = "done"
        /\ req[r].exc.type = "DuplicateKeyError"
        /\ req[r].resp = Accepted
        /\ \E d \in Docs :
              /\ d.transaction_id = req[r].data.transaction_id
              /\ d.status = "PROCESSED"
              /\ d.amount # req[r].data.amount

\* C4: a document's status changes only from PROCESSING to PROCESSED, and
\* a PROCESSED document stays PROCESSED.
C4_StatusMonotonic ==
    [][\A d \in Docs : \A e \in {store'[i] : i \in 1..Len(store')} :
          e._id = d._id =>
             /\ e.status \in {"PROCESSING", "PROCESSED"}
             /\ d.status = "PROCESSED" => e.status = "PROCESSED"]_vars

\* C4 witness: a PROCESSED document whose transaction_id has just been
\* delivered again
C4_Witness ==
    \E r \in Slots, d \in Docs :
        /\ req[r].pc = "done"
        /\ req[r].data.transaction_id = d.transaction_id
        /\ req[r].exc.type = "DuplicateKeyError"
        /\ d.status = "PROCESSED"
        /\ \E w \in WorkersOf(d.transaction_id) :
              workers[w].state = "processed"

\* C5: every stored document has processed_at set exactly when its status
\* is PROCESSED.
C5_ProcessedAtIffProcessed ==
    \A d \in Docs :
        /\ d.status \in {"PROCESSING", "PROCESSED"}
        /\ (d.processed_at # None) <=> (d.status = "PROCESSED")

\* C5 witness: one document PROCESSED with its timestamp, another still
\* PROCESSING without one
C5_Witness ==
    \E d, e \in Docs :
        /\ d.status = "PROCESSED" /\ d.processed_at # None
        /\ e.status = "PROCESSING" /\ e.processed_at = None

\* a request the intake must reject
Rejected(data) == data.amount <= 0 \/ Len(data.currency) # 3

\* C7: a request with amount <= 0 or a currency not of length 3 is answered
\* with the validation error at once: it never reaches the insert, the
\* store is unchanged and no worker is started.
C7_ValidationFirst ==
    [][\A r \in Slots :
          /\ Rejected(req'[r].data) =>
                /\ req'[r].pc \in {"idle", "done"}
                /\ req'[r].inserted = 0
          /\ (req[r].pc = "idle" /\ req'[r].pc # "idle"
                /\ Rejected(req'[r].data)) =>
                /\ req'[r].resp.code = HTTP_422_UNPROCESSABLE
                /\ store' = store
                /\ workers' = workers]_vars

\* C7 witness: a request with a two-letter currency rejected while the
\* store holds a document
C7_Witness ==
    \E r \in Slots :
        /\ req[r].pc = "done"
        /\ Len(req[r].data.currency) < 3
        /\ req[r].resp.code = HTTP_422_UNPROCESSABLE
        /\ Len(store) > 0

\* C8: an insert that fails for another reason than the unique index is
\* answered with the server error and its fixed detail, whatever the
\* exception says; it is not acknowledged as accepted.
C8_GenericServerError ==
    \A r \in Slots :
        (/\ req[r].pc = "done"
         /\ req[r].inserted = 0
         /\ req[r].exc.type \notin
                {"", "DuplicateKeyError", "RequestValidationError"}) =>
            /\ req[r].resp.code = HTTP_500_INTERNAL_SERVER_ERROR
            /\ req[r].resp.detail = <<"Failed", "to", "process", "webhook">>
            /\ req[r].resp # Accepted

\* C8 witness: an insert refused by the store for lack of authorization
C8_Witness ==
    \E r \in Slots :
        /\ req[r].pc = "done"
        /\ req[r].exc.type = "OperationFailure"
        /\ req[r].resp.code = HTTP_500_INTERNAL_SERVER_ERROR

\* C9: a status query whose find_one finds no document is answered with
\* not-found, never with the generic server error and never with a record.
C9_NotFound ==
    (/\ lastq # NoQuery
     /\ lastq.exc.type # "ServerSelectionTimeoutError"
     /\ Matches(store, lastq.transaction_id) = {}) =>
        /\ lastq.code = HTTP_404_NOT_FOUND
        /\ lastq.body = NoBody

\* C9 witness: not-found for one transaction_id while another is stored
C9_Witness ==
    /\ lastq.code = HTTP_404_NOT_FOUND
    /\ Matches(store, lastq.transaction_id) = {}
    /\ Len(store) > 0

\* C10: a status query changes nothing but its own answer, and when a
\* document with the transaction_id exists the answer carries that
\* document's eight fields as they are stored at the read.
C10_PureRead ==
    [][lastq' # lastq =>
          /\ store' = store /\ workers' = workers /\ req' = req
          /\ indexed' = indexed /\ nextId' = nextId
          /\ (lastq' # NoQuery
                /\ lastq'.exc.type # "ServerSelectionTimeoutError"
                /\ Matches(store, lastq'.transaction_id) # {}) =>
                LET d == store[Min(Matches(store, lastq'.transaction_id))]
                    b == lastq'.body
                IN /\ lastq'.code = HTTP_200_OK
                   /\ b.transaction_id = d.transaction_id
                   /\ b.source_account = d.source_account
                   /\ b.destination_account = d.destination_account
                   /\ b.amount = d.amount
                   /\ b.currency = d.currency
                   /\ b.status = d.status
                   /\ b.created_at = d.created_at
                   /\ b.processed_at = d.processed_at]_vars

\* C10 witness: a query answered with a PROCESSED document
C10_Witness ==
    /\ lastq.code = HTTP_200_OK
    /\ lastq.body.status = "PROCESSED"
    /\ lastq.body.processed_at # None

\* a valid request that has its answer and met no failure of the store or
\* of the thread start
Answered(r) ==
    /\ req[r].pc = "done"
    /\ ~Rejected(req[r].data)
    /\ req[r].exc \notin InsertFailures \cup {RuntimeError}

\* C1: however many valid requests carry a transaction_id, the store holds
\* exactly one document for it, at most one worker was ever started for it,
\* and every such request is answered with the acknowledgment.
C1_ExactlyOnce ==
    \A tid \in Ids :
        /\ Cardinality(Matches(store, tid)) <= 1
        /\ Cardinality(WorkersOf(tid)) <= 1
        /\ \A r \in Slots :
              (Answered(r) /\ req[r].data.transaction_id = tid) =>
                 /\ req[r].resp = Accepted
                 /\ Cardinality(Matches(store, tid)) = 1

\* C3: when requests with one transaction_id and differing payloads race
\* on the insert, one document exists afterwards, it carries the payload
\* and created_at of the request whose insert succeeded, and every caller
\* is answered with the acknowledgment.
C3_RaceOneWinner ==
    \A r \in Slots :
        /\ req[r].inserted # 0 =>
              LET M == Matches(store, req[r].data.transaction_id)
              IN /\ Cardinality(M) = 1
                 /\ \A i \in M :
                       /\ store[i].source_account = req[r].doc.source_account
                       /\ store[i].destination_account =
                             req[r].doc.destination_account
                       /\ store[i].amount = req[r].doc.amount
                       /\ store[i].currency = req[r].doc.currency
                       /\ store[i].created_at = req[r].doc.created_at
        /\ Answered(r) => req[r].resp = Accepted

\* Where the unique index exists, C1 and C3 hold.
IndexedExactlyOnce == indexed => (C1_ExactlyOnce /\ C3_RaceOneWinner)

\* ------------------------------------------------------------- liveness
\* Time passes, started threads run, a resumed handler goes on to its
\* dispatch, and responses are delivered.
Fairness ==
    /\ SF_vars(Quiet /\ Tick)
    /\ \A w \in 1..MaxInserts :
          SF_vars(Quiet /\ process_transaction_background(w))
    /\ \A r \in Slots : SF_vars(Quiet /\ start_background_processing(r))
    /\ \A r \in Slots : WF_vars(reply(r))
    /\ WF_vars(query_reply)

\* liveness is verified with one request handler in flight at a time
LiveSlots == {1}

LiveNext ==
    \/ Quiet /\ startup_event
    \/ Quiet /\ \E r \in LiveSlots, data \in Payloads : receive_webhook(r, data)
    \/ Quiet /\ \E r \in LiveSlots : insert_one(r)
    \/ Quiet /\ \E r \in LiveSlots : start_background_processing(r)
    \/ \E r \in LiveSlots : reply(r)
    \/ Quiet /\ \E w \in 1..MaxInserts : process_transaction_background(w)
    \/ Quiet /\ \E tid \in Ids : get_transaction_status(tid)
    \/ query_reply
    \/ Quiet /\ Tick
    \/ Quiet /\ Crash

LiveSpec == Init /\ [][LiveNext]_vars /\ Fairness

\* a request that created the document for tid has been acknowledged
AcceptedNew(tid) ==
    \E r \in Slots :
        /\ req[r].pc = "done"
        /\ req[r].resp = Accepted
        /\ req[r].inserted # 0
        /\ req[r].data.transaction_id = tid

\* the document a status query for tid finds is PROCESSED
Settled(tid) ==
    /\ Matches(store, tid) # {}
    /\ store[Min(Matches(store, tid))].status = "PROCESSED"
    /\ store[Min(Matches(store, tid))].processed_at # None

\* a worker of tid died with the process or failed in its update
Excused(tid) ==
    \E w \in WorkersOf(tid) : workers[w].state \in {"killed", "failed"}

\* the instant a timestamp string stands for
TimeOf(ts) == ts[1]

\* C6: a status query answered before the settlement delay has elapsed
\* since created_at shows PROCESSING; and once a new transaction has been
\* acknowledged its document becomes PROCESSED with processed_at set,
\* unless the process crashed under the worker or the update failed.
C6_EventualSettlement ==
    /\ [](lastq.code = HTTP_200_OK
            /\ lastq.at < TimeOf(lastq.body.created_at) + SLEEP
          => lastq.body.status = "PROCESSING")
    /\ [](lastq.code = HTTP_200_OK
            /\ (\A w \in WorkersOf(lastq.transaction_id) :
                  /\ workers[w].state = "sleeping"
                  /\ lastq.at < workers[w].wakeAt)
          => lastq.body.status = "PROCESSING")
    /\ \A tid \in Ids : AcceptedNew(tid) ~> (Settled(tid) \/ Excused(tid))

\* C6 witness: a query after the delay answered PROCESSED, the worker of
\* that transaction having made the update
C6_Witness ==
    \E tid \in Ids :
        /\ Settled(tid)
        /\ \E w \in WorkersOf(tid) : workers[w].state = "processed"
        /\ lastq.transaction_id = tid
        /\ lastq.code = HTTP_200_OK
        /\ lastq.body.status = "PROCESSED"
        /\ lastq.at >= TimeOf(lastq.body.created_at) + SLEEP

\* the transaction_id handler r carries
TidOf(r) == req[r].data.transaction_id

\* C11: the unique index on transaction_id exists before an intake request
\* is served; a startup that could not create it does not go on to serve.
C11_IndexBeforeIntake ==
    /\ proc = "serving" => indexed
    /\ \A r \in Slots : req[r].pc # "idle" => indexed

\* a new transaction has just been acknowledged to handler r
AckNew(r) ==
    /\ req[r].pc = "done"
    /\ req[r].resp = Accepted
    /\ req[r].inserted # 0

\* C12: when a new transaction is acknowledged, its worker is still in its
\* sleep and the document the request inserted is still PROCESSING.
C12_AckBeforeSettlement ==
    \A r \in Slots :
        AckNew(r) =>
            /\ \E w \in WorkersOf(TidOf(r)) :
                  /\ workers[w].state = "sleeping"
                  /\ clock < workers[w].wakeAt
            /\ \A d \in Docs :
                  d._id = req[r].inserted => d.status = "PROCESSING"

\* the process died under a sleeping worker of tid, no worker of tid is
\* left, and the documents of tid are PROCESSING
Stranded(tid) ==
    /\ Matches(store, tid) # {}
    /\ \A i \in Matches(store, tid) : store[i].status = "PROCESSING"
    /\ \E w \in WorkersOf(tid) : workers[w].state = "killed"
    /\ \A w \in WorkersOf(tid) : workers[w].state # "sleeping"

\* C13: a transaction whose worker died with the process in its sleep stays
\* PROCESSING for ever: no restart and no later intake request, a duplicate
\* delivery included, starts a worker for it or advances its document.
C13_StrandedForever ==
    [][\A tid \in Ids :
          Stranded(tid) =>
             /\ Stranded(tid)'
             /\ WorkersOf(tid)' = WorkersOf(tid)]_vars

\* C14: a worker is started by an intake request exactly when that
\* request's insert succeeded: the handler that inserted goes on to start
\* one worker for its transaction_id, whose document is PROCESSING then,
\* and is acknowledged; no other step starts a worker.
C14_DispatchIffInserted ==
    [][/\ \A r \in Slots :
            (req[r].pc = "dispatch" /\ req'[r].pc = "done") =>
               /\ Len(workers') = Len(workers) + 1
               /\ workers'[Len(workers')].transaction_id = TidOf(r)
               /\ workers'[Len(workers')].state = "sleeping"
               /\ req'[r].resp = Accepted
               /\ \E d \in Docs :
                     d.transaction_id = TidOf(r) /\ d.status = "PROCESSING"
               /\ \A d \in Docs :
                     d.transaction_id = TidOf(r) => d.status = "PROCESSING"
       /\ Len(workers') > Len(workers) =>
            \E r \in Slots :
               /\ req[r].pc = "dispatch"
               /\ req[r].inserted # 0
               /\ req'[r].pc = "done"
               /\ Len(workers') = Len(workers) + 1]_vars

\* C15: a worker whose update fails ends alone: the step changes nothing
\* but that worker, so the process keeps serving, every handler keeps its
\* place, the store is as it was and every other worker is as it was.
C15_WorkerFailureConfined ==
    [][\A w \in 1..Len(workers) :
          (workers[w].state = "sleeping" /\ workers'[w].state = "failed") =>
             /\ proc' = proc
             /\ req' = req
             /\ store' = store
             /\ indexed' = indexed
             /\ Len(workers') = Len(workers)
             /\ \A v \in 1..Len(workers) :
                   v # w => workers'[v] = workers[v]]_vars

\* the worker of t1 failed; t2 was accepted and settled all the same
C15_Witness ==
    /\ proc = "serving"
    /\ \E w \in WorkersOf("t1") : workers[w].state = "failed"
    /\ \A d \in Docs : d.transaction_id = "t1" => d.status = "PROCESSING"
    /\ \E w \in WorkersOf("t2") : workers[w].state = "processed"
    /\ \E d \in Docs :
          /\ d.transaction_id = "t2"
          /\ d.status = "PROCESSED"
          /\ TimeOf(d.created_at) > 0

\* C16: a worker makes one attempt and is gone: a worker changes only by
\* leaving its sleep for an end state, whatever the update did, and a
\* stored document changes only in the step that ends a sleeping worker of
\* its transaction_id with a counted update.
C16_OneAttempt ==
    [][/\ Len(workers') >= Len(workers)
       /\ \A w \in 1..Len(workers) :
             workers'[w] # workers[w] =>
                /\ workers[w].state = "sleeping"
                /\ workers'[w].state \in
                      {"processed", "anomaly", "failed", "killed"}
       /\ \A d \in Docs : \A e \in {store'[i] : i \in 1..Len(store')} :
             (e._id = d._id /\ e # d) =>
                \E w \in WorkersOf(d.transaction_id) :
                   /\ workers[w].state = "sleeping"
                   /\ workers'[w].state = "processed"]_vars

\* the only worker of t1 found no document; t1 was stored again afterwards
\* and is PROCESSING
C16_Witness ==
    /\ Cardinality(WorkersOf("t1")) = 1
    /\ \A w \in WorkersOf("t1") : workers[w].state = "anomaly"
    /\ Len(store) = 1
    /\ store[1].transaction_id = "t1"
    /\ store[1].status = "PROCESSING"
    /\ clock = MaxClock

\* the _id of every stored document
StoredIds(coll) == {coll[i]._id : i \in 1..Len(coll)}

\* the step is one of the program's own, not one of the store's other users
SystemStep ==
    <<proc, indexed, nextId, clock, req, workers, lastq>>' #
        <<proc, indexed, nextId, clock, req, workers, lastq>>

\* C17: a document keeps transaction_id, source_account,
\* destination_account, amount, currency and created_at as they were
\* stored; the step of a worker leaves every document of another
\* transaction_id as it was and removes none, also when its own document
\* is gone; and no step of the program removes a document.
C17_WorkerFrame ==
    [][/\ \A d \in Docs : \A e \in {store'[i] : i \in 1..Len(store')} :
             e._id = d._id =>
                /\ e.transaction_id = d.transaction_id
                /\ e.source_account = d.source_account
                /\ e.destination_account = d.destination_account
                /\ e.amount = d.amount
                /\ e.currency = d.currency
                /\ e.created_at = d.created_at
       /\ \A w \in 1..Len(workers) :
             workers'[w] # workers[w] =>
                /\ StoredIds(store') = StoredIds(store)
                /\ \A d \in Docs :
                      d.transaction_id # workers[w].transaction_id =>
                         d \in {store'[i] : i \in 1..Len(store')}
       /\ SystemStep => StoredIds(store) \subseteq StoredIds(store')]_vars

\* the document of t1 was deleted, the worker of t1 found nothing, and the
\* document of t2, stored before that worker woke, is as it was stored
C17_Witness ==
    /\ \E w \in WorkersOf("t1") : workers[w].state = "anomaly"
    /\ Matches(store, "t1") = {}
    /\ \E d \in Docs :
          /\ d.transaction_id = "t2"
          /\ d.source_account = "acc1"
          /\ d.amount = 100
          /\ TimeOf(d.created_at) = 0
          /\ d.status = "PROCESSING"
          /\ d.processed_at = None

\* worker w makes its update in this step (the store answered)
Updates(w) ==
    /\ workers[w].state = "sleeping"
    /\ workers'[w].state \in {"processed", "anomaly"}

\* the document the update of a worker of tid is applied to
Target(coll, tid) == coll[Min(Matches(coll, tid))]

\* C19 as stated: the update asks nothing of the current status: where a
\* document of the worker's transaction_id exists, the update leaves it
\* PROCESSED with processed_at = now; and the update counts zero modified
\* documents only where no document of that transaction_id exists.
C19_ZeroOnlyIfMissing ==
    [][\A w \in 1..Len(workers) :
          Updates(w) =>
             /\ Matches(store, workers[w].transaction_id) # {} =>
                   /\ Target(store', workers[w].transaction_id).status
                         = "PROCESSED"
                   /\ Target(store', workers[w].transaction_id).processed_at
                         = <<clock, "Z">>
             /\ workers'[w].state = "anomaly" =>
                   Matches(store, workers[w].transaction_id) = {}]_vars

\* C19 amended: the update asks nothing of the current status: where a
\* document of the worker's transaction_id exists, the update leaves it
\* PROCESSED with processed_at = now; it counts zero modified documents
\* exactly where no such document exists or the document already holds
\* this status and this processed_at.
C19_UnconditionalUpdate ==
    [][\A w \in 1..Len(workers) :
          Updates(w) =>
             /\ Matches(store, workers[w].transaction_id) # {} =>
                   /\ Target(store', workers[w].transaction_id).status
                         = "PROCESSED"
                   /\ Target(store', workers[w].transaction_id).processed_at
                         = <<clock, "Z">>
                   /\ Target(store', workers[w].transaction_id)._id
                         = Target(store, workers[w].transaction_id)._id
             /\ workers'[w].state = "anomaly" <=>
                   \/ Matches(store, workers[w].transaction_id) = {}
                   \/ /\ Target(store, workers[w].transaction_id).status
                            = "PROCESSED"
                      /\ Target(store, workers[w].transaction_id).processed_at
                            = <<clock, "Z">>]_vars

\* two workers of t1 each made a counted update of the one document of
\* t1: the later one overwrote the processed_at of the earlier one
C19_Witness ==
    /\ Cardinality({w \in WorkersOf("t1") :
                        workers[w].state = "processed"}) = 2
    /\ Len(store) = 1
    /\ store[1].transaction_id = "t1"
    /\ store[1].status = "PROCESSED"
    /\ TimeOf(store[1].processed_at) = MaxClock

\* C18: processed_at of a document is written once, on the step that makes
\* the document PROCESSED, and is never before created_at.
C18_ProcessedAtOnce ==
    [][\A d \in Docs : \A e \in {store'[i] : i \in 1..Len(store')} :
          e._id = d._id =>
             /\ d.processed_at # None => e.processed_at = d.processed_at
             /\ e.processed_at # d.processed_at =>
                   /\ d.status = "PROCESSING"
                   /\ e.status = "PROCESSED"
                   /\ TimeOf(d.created_at) <= TimeOf(e.processed_at)]_vars

\* C20: an intake request answered with the server error has stored no
\* document and started no worker.
C20_ServerErrorNoEffect ==
    \A r \in Slots :
        (req[r].pc = "done"
            /\ req[r].resp.code = HTTP_500_INTERNAL_SERVER_ERROR) =>
           /\ req[r].inserted = 0
           /\ \A d \in Docs : d._id # req[r].inserted

\* Where the unique index exists, C12, C13 and C18 hold.
IndexedAckBeforeSettlement == indexed => C12_AckBeforeSettlement

IndexedStrandedForever ==
    [][\A tid \in Ids :
          (indexed /\ Stranded(tid)) =>
             /\ Stranded(tid)'
             /\ WorkersOf(tid)' = WorkersOf(tid)]_vars

IndexedProcessedAtOnce ==
    [][indexed =>
        \A d \in Docs : \A e \in {store'[i] : i \in 1..Len(store')} :
          e._id = d._id =>
             /\ d.processed_at # None => e.processed_at = d.processed_at
             /\ e.processed_at # d.processed_at =>
                   /\ d.status = "PROCESSING"
                   /\ e.status = "PROCESSED"
                   /\ TimeOf(d.created_at) <= TimeOf(e.processed_at)]_vars

====
